---- MODULE Spec2Model ----
(***************************************************************************)
(* Model of the upload backend: the in-memory registry `uploads` and the   *)
(* route handlers of routes/upload.js (with the multipart routes), the     *)
(* validation and error middleware of middleware/index.js, and the helpers *)
(* of config/aws.js.                                                       *)
(*                                                                         *)
(* Every async handler is cut at its `await`s: the synchronous segment up  *)
(* to an await is one action, the provider's answer (success or failure)   *)
(* together with the segment that follows it is the next.  The requests    *)
(* suspended at an await are the bag `reqs`, each with the local variables *)
(* of its handler.                                                         *)
(*                                                                         *)
(* All byte sizes are expressed in MiB (1 = 1024 * 1024 bytes): the        *)
(* calculator's thresholds are whole numbers of MiB, and 5 GiB in bytes    *)
(* does not fit the 32 bit integers of the model checker.                  *)
(***************************************************************************)
EXTENDS Integers, Sequences, FiniteSets, Bags, TLC

VARIABLES
  uploads,       \* keys present in the Map `uploads`
  objects,       \* the uploadData objects, by the uploadId they were made with
  nextUploadId,  \* number of uuidv4() values handed out so far, plus one
  reqs,          \* the bag of requests being served, each suspended at an await
  last,          \* the response sent by the latest step, Empty if it sent none
  now,           \* Date.now()
  s3Open,        \* multipart handles opened at the provider, not yet completed/aborted
  NODE_ENV,      \* process.env.NODE_ENV
  planIn,        \* calculator harness: the fileSize given
  planOut        \* calculator harness: the plan returned, Empty before

vars == <<uploads, objects, nextUploadId, reqs, last, now, s3Open, NODE_ENV, planIn, planOut>>

registryVars == <<uploads, objects>>

----------------------------------------------------------------------------
(* Bounds of the exploration *)

MaxUploads == 1        \* uuidv4() calls explored
MaxInflight == 2       \* requests served concurrently
MaxTime == 1           \* clock values 0..MaxTime
MaxPartsLen == 3       \* longest `parts` array a client submits
MaxSmallSize == 130    \* calculator harness: sizes 0..MaxSmallSize
CalcWindow == 12       \* calculator harness: half-width of the windows around the clamps

----------------------------------------------------------------------------
(* Values *)

\* JS objects are functions on the names of the fields they have: a field
\* that was never assigned (undefined) is outside the domain
Empty == << >>

Has(r, f) == f \in DOMAIN r

\* r.f for a field holding an object or an array: Empty when undefined
Field(r, f) == IF Has(r, f) THEN r[f] ELSE Empty

Put(r, f, v) == (f :> v) @@ r

\* !!r.f for a field holding a number, resp. a string
TruthyNum(r, f) == Has(r, f) /\ r[f] # 0
TruthyStr(r, f) == Has(r, f) /\ r[f] # ""

----------------------------------------------------------------------------
(* config/aws.js: calculateMultipartParams *)

MIN_PART_SIZE == 5
PREFERRED_PART_SIZE == 50
MAX_PART_SIZE == 5120
MAX_PARTS == 10000

\* Math.floor in place of Math.ceil
CeilAsFloor(a, b) == a \div b

\* Math.ceil(a / b) for a >= 0, b > 0
Ceil(a, b) == (a + b - 1) \div b

InitialPlan(fileSize) ==
  [partSize |-> PREFERRED_PART_SIZE,
   partCount |-> Ceil(fileSize, PREFERRED_PART_SIZE)]

ClampMaxParts(fileSize, p) ==
  IF p.partCount > MAX_PARTS
    THEN [partSize |-> Ceil(fileSize, MAX_PARTS), partCount |-> MAX_PARTS]
    ELSE p

ClampMaxSize(fileSize, p) ==
  IF p.partSize > MAX_PART_SIZE
    THEN [partSize |-> MAX_PART_SIZE, partCount |-> Ceil(fileSize, MAX_PART_SIZE)]
    ELSE p

\* the comparison inverted
ClampMinSizeInverted(fileSize, p) ==
  IF p.partSize > MIN_PART_SIZE
    THEN [partSize |-> MIN_PART_SIZE, partCount |-> Ceil(fileSize, MIN_PART_SIZE)]
    ELSE p

ClampMinSize(fileSize, p) ==
  IF p.partSize < MIN_PART_SIZE
    THEN [partSize |-> MIN_PART_SIZE, partCount |-> Ceil(fileSize, MIN_PART_SIZE)]
    ELSE p

\* the size guard dropped and the count test off by one
UseMultipartCountOnly(fileSize, partCount) == partCount >= 1

\* the part count not looked at
UseMultipartSizeOnly(fileSize, partCount) == fileSize > MIN_PART_SIZE

UseMultipart(fileSize, partCount) ==
  fileSize > MIN_PART_SIZE /\ partCount > 1

calculateMultipartParams(fileSize) ==
  LET p == ClampMinSize(fileSize,
             ClampMaxSize(fileSize,
               ClampMaxParts(fileSize, InitialPlan(fileSize))))
  IN [partSize |-> p.partSize,
      partCount |-> p.partCount,
      useMultipart |-> UseMultipart(fileSize, p.partCount)]

\* the sizes the calculator harness tries: the small ones, and windows
\* around MAX_PARTS * PREFERRED_PART_SIZE and MAX_PARTS * MAX_PART_SIZE
CalcSizes ==
  (0 .. MaxSmallSize)
    \cup ((MAX_PARTS * PREFERRED_PART_SIZE - CalcWindow)
            .. (MAX_PARTS * PREFERRED_PART_SIZE + CalcWindow))
    \cup ((MAX_PARTS * MAX_PART_SIZE - CalcWindow)
            .. (MAX_PARTS * MAX_PART_SIZE + CalcWindow))

----------------------------------------------------------------------------
(* Request inputs *)

UploadIds == 1 .. MaxUploads

\* all records with some of the fields `names`, each drawn from its set
RECURSIVE Optional(_, _)
Optional(names, sets) ==
  IF names = {} THEN {Empty}
  ELSE LET f == CHOOSE n \in names : TRUE
           rest == Optional(names \ {f}, sets)
       IN rest \cup {Put(r, f, v) : r \in rest, v \in sets[f]}

FileSizes == {0, 2, 60}

ValidBody == [fileName |-> "clip.mp4", contentType |-> "video/mp4", userId |-> "u1"]

\* request bodies of the two initiations: the valid one without and with a
\* fileSize, and one body for each rejection of validateFileUpload
Bodies ==
  {ValidBody}
    \cup {Put(ValidBody, "fileSize", n) : n \in FileSizes}
    \cup {[contentType |-> "video/mp4"],
          [fileName |-> "clip.mp4"],
          [fileName |-> "clip.mp4", contentType |-> "text/html"]}

PartNumbers == 1 .. 2

Part(n) == [ETag |-> "etag", PartNumber |-> n]

RECURSIVE SeqsUpTo(_, _)
SeqsUpTo(S, n) ==
  IF n = 0 THEN {<<>>}
  ELSE LET shorter == SeqsUpTo(S, n - 1)
       IN shorter \cup {Append(q, x) : q \in {t \in shorter : Len(t) = n - 1}, x \in S}

\* the `parts` field of a complete request: an array, or something that is
\* not an array
PartsValues ==
  {[isArray |-> FALSE, items |-> <<>>]}
    \cup {[isArray |-> TRUE, items |-> q] :
            q \in SeqsUpTo({Part(n) : n \in PartNumbers}, MaxPartsLen)}

----------------------------------------------------------------------------
(* Environment (process.env) *)

ALLOWED_FILE_TYPES == {"video/mp4", "image/png"}
DEFAULT_MAX_FILE_SIZE == 30720      \* 32212254720 bytes
DEFAULT_EXPIRES_IN == 3600
DOWNLOAD_EXPIRES_IN == 3600

\* request bodies that exercise validateFileUpload: fileName and contentType
\* absent, empty, valid, wrongly cased, not allow-listed; fileSize absent,
\* small, and on both sides of the configured maximum
WideSizes == {60, DEFAULT_MAX_FILE_SIZE + 1}

WideBodies ==
  Optional({"fileName", "contentType", "fileSize"},
           [fileName |-> {"", "clip.mp4"},
            contentType |-> {"video/mp4", "VIDEO/MP4", "video/x-flv",
                             "image/png", "text/html"},
            fileSize |-> WideSizes])
    \cup {[fileName |-> "clip.mp4", contentType |-> "image/png", fileSize |-> DEFAULT_MAX_FILE_SIZE]}

----------------------------------------------------------------------------
(* Responses: res.status(status).json({ success, data | error }) *)

Ok(data) == [success |-> TRUE, status |-> 200, data |-> data]

Reject(status, message) ==
  [success |-> FALSE, status |-> status, message |-> message]

RejectWith(status, message, details) ==
  [success |-> FALSE, status |-> status, message |-> message, details |-> details]

----------------------------------------------------------------------------
(* middleware/index.js *)

\* the words of the messages the code throws, for String.prototype.includes
Words(message) ==
  CASE message = "Failed to generate presigned upload URL" ->
         <<"Failed", "to", "generate", "presigned", "upload", "URL">>
    [] message = "Failed to generate presigned download URL" ->
         <<"Failed", "to", "generate", "presigned", "download", "URL">>
    [] message = "Failed to delete file" ->
         <<"Failed", "to", "delete", "file">>
    [] message = "Failed to initiate multipart upload" ->
         <<"Failed", "to", "initiate", "multipart", "upload">>
    [] message = "Failed to generate presigned URL for part" ->
         <<"Failed", "to", "generate", "presigned", "URL", "for", "part">>
    [] message = "Failed to complete multipart upload" ->
         <<"Failed", "to", "complete", "multipart", "upload">>
    [] message = "Failed to abort multipart upload" ->
         <<"Failed", "to", "abort", "multipart", "upload">>
    [] OTHER -> <<message>>

Includes(message, sub) ==
  \E i \in 1 .. Len(Words(message)) : Words(message)[i] = sub

\* new Error(message)
Error(message) ==
  [name |-> "Error", message |-> message, stack |-> <<"stack", message>>]

errorHandler(err, env) ==
  LET error ==
        CASE err.name = "ValidationError" ->
               [message |-> "Validation Error", status |-> 400, details |-> err.message]
          [] err.name = "UnauthorizedError" ->
               [message |-> "Unauthorized", status |-> 401]
          [] err.message = "Not allowed by CORS" ->
               [message |-> "CORS Error", status |-> 403]
          [] Has(err, "code") /\ err.code = "LIMIT_FILE_SIZE" ->
               [message |-> "File too large", status |-> 413,
                details |-> "Maximum file size"]
          [] Has(err, "code") /\ err.code = "LIMIT_UNEXPECTED_FILE" ->
               [message |-> "Unexpected file field", status |-> 400]
          [] Includes(err.message, "AWS") \/ Includes(err.message, "S3") ->
               IF env = "development"
                 THEN [message |-> "AWS Service Error", status |-> 502,
                       details |-> err.message]
                 ELSE [message |-> "AWS Service Error", status |-> 502]
          [] OTHER ->
               [message |-> "Internal Server Error", status |-> 500]
      stack == IF env = "development" THEN [stack |-> err.stack] ELSE Empty
  IN stack @@ error @@ [success |-> FALSE]

\* no content type starts with "video/"
StartsWithVideoNever(contentType) == FALSE

\* contentType.startsWith("video/"), over the content types of the inputs
StartsWithVideo(contentType) == contentType \in {"video/mp4", "video/x-flv"}

\* every content type allowed
isValidFileTypeAny(contentType) == TRUE

isValidFileType(contentType) == contentType \in ALLOWED_FILE_TYPES

\* Empty when the middleware calls next(), the response it sends otherwise
validateFileUpload(body) ==
  IF ~TruthyStr(body, "fileName") THEN Reject(400, "fileName is required")
  ELSE IF ~TruthyStr(body, "contentType") THEN Reject(400, "contentType is required")
  ELSE IF /\ TruthyNum(body, "fileSize")
          /\ ~StartsWithVideo(body.contentType)
          /\ body.fileSize > DEFAULT_MAX_FILE_SIZE
    THEN RejectWith(413, "File too large", "exceeds maximum allowed size")
  ELSE IF ~isValidFileType(body.contentType)
    THEN RejectWith(400, "Invalid file type", "Allowed types")
  ELSE Empty

----------------------------------------------------------------------------
(* config/aws.js: keys and provider calls *)

\* `${S3_UPLOAD_PATH}${userId}/${timestamp}-${randomString}-${baseName}.${extension}`;
\* the timestamp and random string are the fresh component `nonce`
generateFileKey(originalName, body, nonce) ==
  [userId |-> IF Has(body, "userId") THEN body.userId ELSE "anonymous",
   nonce |-> nonce, name |-> originalName]

SignUpload(key, contentType, expiresIn) ==
  [op |-> "signUpload", Key |-> key, ContentType |-> contentType,
   expiresIn |-> expiresIn]

SignDownload(key, expiresIn) ==
  [op |-> "signDownload", Key |-> key, expiresIn |-> expiresIn]

DeleteObject(key) == [op |-> "deleteObject", Key |-> key]

BeginMultipart(key, contentType) ==
  [op |-> "beginMultipart", Key |-> key, ContentType |-> contentType]

\* the loop counting its parts from 2
SignPartOneAhead(key, uploadId, partNumber, expiresIn) ==
  [op |-> "signPart", Key |-> key, UploadId |-> uploadId,
   PartNumber |-> partNumber + 1, expiresIn |-> expiresIn]

SignPart(key, uploadId, partNumber, expiresIn) ==
  [op |-> "signPart", Key |-> key, UploadId |-> uploadId,
   PartNumber |-> partNumber, expiresIn |-> expiresIn]

\* parts.map((part) => ({ ETag: part.ETag, PartNumber: part.PartNumber }))
CompleteMultipart(key, uploadId, parts) ==
  [op |-> "completeMultipart", Key |-> key, UploadId |-> uploadId,
   Parts |-> [i \in 1 .. Len(parts) |->
                [ETag |-> parts[i].ETag, PartNumber |-> parts[i].PartNumber]]]

AbortMultipart(key, uploadId) ==
  [op |-> "abortMultipart", Key |-> key, UploadId |-> uploadId]

\* what the provider hands back on success
SignedUrl(call) == <<"url", call.op, call.Key.nonce>>
ProviderUploadId(n) == <<"mpu", n>>
Location(key) == <<"location", key.nonce>>

----------------------------------------------------------------------------
(* State *)

Init ==
  /\ uploads = {}
  /\ objects = Empty
  /\ nextUploadId = 1
  /\ reqs = EmptyBag
  /\ last = Empty
  /\ now = 0
  /\ s3Open = {}
  /\ NODE_ENV \in {"development", "production"}
  /\ planIn = 0
  /\ planOut = Empty

InFlight == BagToSet(reqs)

\* the server takes a request
Accepts == BagCardinality(reqs) < MaxInflight

Awaiting(r, kind, op) ==
  /\ r \in InFlight
  /\ r.kind = kind
  /\ r.call.op = op

\* the handler answers without having awaited anything
Respond(res) ==
  /\ reqs' = reqs
  /\ last' = res

\* the handler reaches its first await, with `local` its local variables
Await(kind, local, call) ==
  /\ reqs' = reqs (+) SetToBag({[kind |-> kind, local |-> local, call |-> call,
                                 calls |-> 1]})
  /\ last' = Empty

\* the handler reaches a further await
AwaitNext(r, local, call) ==
  /\ reqs' = (reqs (-) SetToBag({r}))
               (+) SetToBag({[kind |-> r.kind, local |-> local, call |-> call,
                              calls |-> r.calls + 1]})
  /\ last' = Empty

\* the handler answers after an await
Finish(r, res) ==
  /\ reqs' = reqs (-) SetToBag({r})
  /\ last' = res

\* the catch block neither answers nor calls next(): the request hangs
ThrowUnanswered(r, message) ==
  /\ reqs' = (reqs (-) SetToBag({r}))
               (+) SetToBag({[r EXCEPT !.call = [op |-> "none"]]})
  /\ last' = Empty

\* the helper of config/aws.js throws new Error(message); the handler's catch
\* passes it to next(), which reaches errorHandler
Throw(r, message) == Finish(r, errorHandler(Error(message), NODE_ENV))

\* the uploadData objects that suspended handlers still hold and use
Held(rs) ==
  {r.local.uploadId :
     r \in {q \in BagToSet(rs) :
              q.kind \in {"confirm", "multipart/complete", "multipart/abort"}}}

\* the objects after the step: those in the Map or held by a handler (the
\* others are garbage)
Objects(new) ==
  objects' = [k \in (DOMAIN new) \cap (uploads' \cup Held(reqs')) |-> new[k]]

IsMultipart(uploadData) == Has(uploadData, "type") /\ uploadData.type = "multipart"

\* userId || "anonymous"
UserIdOf(l) == IF TruthyStr(l, "userId") THEN l.userId ELSE "anonymous"

\* const { fileName, contentType, userId } = req.body
Pick(body, names) == [f \in (DOMAIN body) \cap names |-> body[f]]

Tick ==
  /\ now < MaxTime
  /\ now' = now + 1
  /\ last' = Empty
  /\ UNCHANGED <<uploads, objects, nextUploadId, reqs, s3Open, NODE_ENV, planIn, planOut>>

----------------------------------------------------------------------------
(* GET /health *)

Health ==
  /\ Accepts
  /\ Respond(Ok([status |-> "healthy", s3Configured |-> TRUE, timestamp |-> now]))
  /\ UNCHANGED <<uploads, objects, nextUploadId, now, s3Open, NODE_ENV, planIn, planOut>>

----------------------------------------------------------------------------
(* POST /presigned-url *)

PresignedUrl(body) ==
  /\ Accepts
  /\ LET rejected == validateFileUpload(body)
     IN IF rejected # Empty
          THEN /\ Respond(rejected)
               /\ UNCHANGED nextUploadId
          ELSE /\ nextUploadId <= MaxUploads
               /\ LET uploadId == nextUploadId
                      s3Key == generateFileKey(body.fileName, body, uploadId)
                      expiresIn == DEFAULT_EXPIRES_IN
                  IN Await("presigned-url",
                           Pick(body, {"fileName", "contentType", "userId"})
                             @@ [uploadId |-> uploadId, s3Key |-> s3Key,
                                 expiresIn |-> expiresIn],
                           SignUpload(s3Key, body.contentType, expiresIn))
               /\ nextUploadId' = nextUploadId + 1
  /\ UNCHANGED <<uploads, objects, now, s3Open, NODE_ENV, planIn, planOut>>

PresignedUrlReturns(r) ==
  /\ Awaiting(r, "presigned-url", "signUpload")
  /\ LET l == r.local
         uploadData ==
           [uploadId |-> l.uploadId,
            fileName |-> l.fileName,
            contentType |-> l.contentType,
            s3Key |-> l.s3Key,
            userId |-> UserIdOf(l),
            status |-> "pending",
            createdAt |-> now,
            expiresAt |-> now + l.expiresIn * 1000]
     IN \/ /\ uploads' = uploads \cup {l.uploadId}
           /\ Finish(r, Ok([uploadId |-> l.uploadId,
                            presignedUrl |-> SignedUrl(r.call),
                            s3Key |-> l.s3Key,
                            expiresIn |-> l.expiresIn,
                            expiresAt |-> uploadData.expiresAt]))
           /\ Objects(Put(objects, l.uploadId, uploadData))
        \/ /\ Throw(r, "Failed to generate presigned upload URL")
           /\ UNCHANGED <<uploads, objects>>
  /\ UNCHANGED <<nextUploadId, now, s3Open, NODE_ENV, planIn, planOut>>

----------------------------------------------------------------------------
(* POST /confirm *)

IdInputs == Optional({"uploadId"}, [uploadId |-> UploadIds])

\* the status assignment forgotten
MarkCompletedNoStatus(uploadData, at) == Put(uploadData, "completedAt", at)

\* the record also marked as a multipart one
MarkCompletedRetyped(uploadData, at) ==
  Put(Put(Put(uploadData, "status", "completed"), "completedAt", at),
      "type", "multipart")

\* uploadData.status = "completed"; uploadData.completedAt = new Date().toISOString()
MarkCompleted(uploadData, at) ==
  Put(Put(uploadData, "status", "completed"), "completedAt", at)

Confirm(in) ==
  /\ Accepts
  /\ IF ~Has(in, "uploadId")
       THEN /\ Respond(Reject(400, "uploadId is required"))
            /\ UNCHANGED <<uploads, objects>>
     ELSE IF in.uploadId \notin uploads
       THEN /\ Respond(Reject(404, "Upload not found"))
            /\ UNCHANGED <<uploads, objects>>
     ELSE LET uploadData == MarkCompleted(objects[in.uploadId], now)
          IN /\ uploads' = uploads \cup {in.uploadId}
             /\ Await("confirm", [uploadId |-> in.uploadId],
                      SignDownload(uploadData.s3Key, DOWNLOAD_EXPIRES_IN))
             /\ Objects(Put(objects, in.uploadId, uploadData))
  /\ UNCHANGED <<nextUploadId, now, s3Open, NODE_ENV, planIn, planOut>>

ConfirmReturns(r) ==
  /\ Awaiting(r, "confirm", "signDownload")
  /\ LET uploadData == objects[r.local.uploadId]
     IN \/ Finish(r, Ok([uploadId |-> r.local.uploadId,
                         status |-> "completed",
                         fileName |-> uploadData.fileName,
                         s3Key |-> uploadData.s3Key,
                         downloadUrl |-> SignedUrl(r.call),
                         completedAt |-> uploadData.completedAt]))
        \/ Throw(r, "Failed to generate presigned download URL")
  /\ UNCHANGED uploads
  /\ Objects(objects)
  /\ UNCHANGED <<nextUploadId, now, s3Open, NODE_ENV, planIn, planOut>>

----------------------------------------------------------------------------
(* GET /:uploadId *)

\* the record dropped from the Map once it has been read
GetUploadAndForget(uploadId) ==
  /\ Accepts
  /\ IF uploadId \notin uploads
       THEN Respond(Reject(404, "Upload not found"))
       ELSE Respond(Ok(objects[uploadId]))
  /\ uploads' = uploads \ {uploadId}
  /\ Objects(objects)
  /\ UNCHANGED <<nextUploadId, now, s3Open, NODE_ENV, planIn, planOut>>

GetUpload(uploadId) ==
  /\ Accepts
  /\ IF uploadId \notin uploads
       THEN Respond(Reject(404, "Upload not found"))
       ELSE Respond(Ok(objects[uploadId]))
  /\ UNCHANGED <<uploads, objects, nextUploadId, now, s3Open, NODE_ENV, planIn, planOut>>

----------------------------------------------------------------------------
(* DELETE /:uploadId *)

\* the record removed before the provider is asked to delete the object
DeleteUploadEagerly(uploadId) ==
  /\ Accepts
  /\ IF uploadId \notin uploads
       THEN /\ Respond(Reject(404, "Upload not found"))
            /\ UNCHANGED uploads
     ELSE IF objects[uploadId].status = "completed"
       THEN /\ Await("delete", [uploadId |-> uploadId],
                     DeleteObject(objects[uploadId].s3Key))
            /\ uploads' = uploads \ {uploadId}
     ELSE /\ uploads' = uploads \ {uploadId}
          /\ Respond(Ok([message |-> "Upload deleted successfully",
                         uploadId |-> uploadId]))
  /\ Objects(objects)
  /\ UNCHANGED <<nextUploadId, now, s3Open, NODE_ENV, planIn, planOut>>

DeleteUpload(uploadId) ==
  /\ Accepts
  /\ IF uploadId \notin uploads
       THEN /\ Respond(Reject(404, "Upload not found"))
            /\ UNCHANGED uploads
     ELSE IF objects[uploadId].status = "completed"
       THEN /\ Await("delete", [uploadId |-> uploadId],
                     DeleteObject(objects[uploadId].s3Key))
            /\ UNCHANGED uploads
     ELSE /\ uploads' = uploads \ {uploadId}
          /\ Respond(Ok([message |-> "Upload deleted successfully",
                         uploadId |-> uploadId]))
  /\ Objects(objects)
  /\ UNCHANGED <<nextUploadId, now, s3Open, NODE_ENV, planIn, planOut>>

\* the whole Map cleared when the provider has deleted the object
DeleteUploadReturnsClearing(r) ==
  /\ Awaiting(r, "delete", "deleteObject")
  /\ \/ /\ uploads' = {}
        /\ Finish(r, Ok([message |-> "Upload deleted successfully",
                         uploadId |-> r.local.uploadId]))
     \/ /\ Throw(r, "Failed to delete file")
        /\ UNCHANGED uploads
  /\ Objects(objects)
  /\ UNCHANGED <<nextUploadId, now, s3Open, NODE_ENV, planIn, planOut>>

DeleteUploadReturns(r) ==
  /\ Awaiting(r, "delete", "deleteObject")
  /\ \/ /\ uploads' = uploads \ {r.local.uploadId}
        /\ Finish(r, Ok([message |-> "Upload deleted successfully",
                         uploadId |-> r.local.uploadId]))
     \/ /\ Throw(r, "Failed to delete file")
        /\ UNCHANGED uploads
  /\ Objects(objects)
  /\ UNCHANGED <<nextUploadId, now, s3Open, NODE_ENV, planIn, planOut>>

----------------------------------------------------------------------------
(* GET / *)

Queries ==
  Optional({"userId", "status"},
           [userId |-> {"u1"}, status |-> {"pending", "completed"}])

ListUploads(query) ==
  /\ Accepts
  /\ LET all == {objects[k] : k \in uploads}
         byUser == IF TruthyStr(query, "userId")
                     THEN {u \in all : u.userId = query.userId}
                     ELSE all
         filteredUploads == IF TruthyStr(query, "status")
                              THEN {u \in byUser : u.status = query.status}
                              ELSE byUser
     IN Respond(Ok([uploads |-> filteredUploads,
                    total |-> Cardinality(filteredUploads)]))
  /\ UNCHANGED <<uploads, objects, nextUploadId, now, s3Open, NODE_ENV, planIn, planOut>>

----------------------------------------------------------------------------
(* POST /download-url *)

KeyInputs ==
  Optional({"s3Key"}, [s3Key |-> {generateFileKey("clip.mp4", ValidBody, 1)}])

DownloadUrl(in) ==
  /\ Accepts
  /\ IF ~Has(in, "s3Key")
       THEN Respond(Reject(400, "s3Key is required"))
       ELSE Await("download-url",
                  [s3Key |-> in.s3Key, expiresIn |-> DOWNLOAD_EXPIRES_IN],
                  SignDownload(in.s3Key, DOWNLOAD_EXPIRES_IN))
  /\ UNCHANGED <<uploads, objects, nextUploadId, now, s3Open, NODE_ENV, planIn, planOut>>

DownloadUrlReturns(r) ==
  /\ Awaiting(r, "download-url", "signDownload")
  /\ \/ Finish(r, Ok([downloadUrl |-> SignedUrl(r.call),
                      s3Key |-> r.local.s3Key,
                      expiresIn |-> r.local.expiresIn,
                      expiresAt |-> now + r.local.expiresIn * 1000]))
     \/ Throw(r, "Failed to generate presigned download URL")
  /\ UNCHANGED <<uploads, objects, nextUploadId, now, s3Open, NODE_ENV, planIn, planOut>>

----------------------------------------------------------------------------
(* POST /multipart/initiate *)

MultipartInitiate(body) ==
  /\ Accepts
  /\ LET rejected == validateFileUpload(body)
     IN IF rejected # Empty
          THEN /\ Respond(rejected)
               /\ UNCHANGED nextUploadId
        ELSE IF ~TruthyNum(body, "fileSize")
          THEN /\ Respond(Reject(400, "fileSize is required for multipart upload"))
               /\ UNCHANGED nextUploadId
        ELSE /\ nextUploadId <= MaxUploads
             /\ nextUploadId' = nextUploadId + 1
             /\ LET uploadId == nextUploadId
                    s3Key == generateFileKey(body.fileName, body, uploadId)
                    multipartParams == calculateMultipartParams(body.fileSize)
                IN IF ~multipartParams.useMultipart
                     THEN Respond(Reject(400, "File size does not require multipart upload"))
                     ELSE Await("multipart/initiate",
                                Pick(body, {"fileName", "contentType", "fileSize", "userId"})
                                  @@ [uploadId |-> uploadId, s3Key |-> s3Key,
                                      multipartParams |-> multipartParams],
                                BeginMultipart(s3Key, body.contentType))
  /\ UNCHANGED <<uploads, objects, now, s3Open, NODE_ENV, planIn, planOut>>

\* initiateMultipartUpload returns; generateMultipartUploadUrls starts its loop
\* (partCount > 1 here, so the loop is entered)
MultipartInitiateReturns(r) ==
  /\ Awaiting(r, "multipart/initiate", "beginMultipart")
  /\ LET l == r.local
         s3UploadId == ProviderUploadId(l.uploadId)
         expiresIn == DEFAULT_EXPIRES_IN
     IN \/ /\ s3Open' = s3Open \cup {s3UploadId}
           /\ AwaitNext(r, l @@ [s3UploadId |-> s3UploadId, expiresIn |-> expiresIn,
                                 urls |-> <<>>],
                        SignPart(l.s3Key, s3UploadId, 1, expiresIn))
        \/ /\ Throw(r, "Failed to initiate multipart upload")
           /\ UNCHANGED s3Open
  /\ UNCHANGED <<uploads, objects, nextUploadId, now, NODE_ENV, planIn, planOut>>

\* one turn of the loop of generateMultipartUploadUrls; after the last one
\* the handler stores the record and answers
SignPartReturns(r) ==
  /\ Awaiting(r, "multipart/initiate", "signPart")
  /\ LET l == r.local
         partNumber == r.call.PartNumber
         urls == Append(l.urls, [partNumber |-> partNumber,
                                 presignedUrl |-> SignedUrl(r.call)])
         uploadData ==
           [uploadId |-> l.uploadId,
            s3UploadId |-> l.s3UploadId,
            fileName |-> l.fileName,
            contentType |-> l.contentType,
            fileSize |-> l.fileSize,
            s3Key |-> l.s3Key,
            userId |-> UserIdOf(l),
            status |-> "multipart-initiated",
            type |-> "multipart",
            partSize |-> l.multipartParams.partSize,
            partCount |-> l.multipartParams.partCount,
            completedParts |-> <<>>,
            createdAt |-> now,
            expiresAt |-> now + l.expiresIn * 1000]
     IN \/ /\ partNumber < l.multipartParams.partCount
           /\ AwaitNext(r, [l EXCEPT !.urls = urls],
                        SignPart(l.s3Key, l.s3UploadId, partNumber + 1, l.expiresIn))
           /\ UNCHANGED <<uploads, objects>>
        \/ /\ partNumber >= l.multipartParams.partCount
           /\ uploads' = uploads \cup {l.uploadId}
           /\ Finish(r, Ok([uploadId |-> l.uploadId,
                            s3UploadId |-> l.s3UploadId,
                            s3Key |-> l.s3Key,
                            partSize |-> l.multipartParams.partSize,
                            partCount |-> l.multipartParams.partCount,
                            partUrls |-> urls,
                            expiresIn |-> l.expiresIn,
                            expiresAt |-> uploadData.expiresAt]))
           /\ Objects(Put(objects, l.uploadId, uploadData))
        \/ /\ Throw(r, "Failed to generate presigned URL for part")
           /\ UNCHANGED <<uploads, objects>>
  /\ UNCHANGED <<nextUploadId, now, s3Open, NODE_ENV, planIn, planOut>>

----------------------------------------------------------------------------
(* POST /multipart/complete *)

CompleteInputs ==
  Optional({"uploadId", "parts"}, [uploadId |-> UploadIds, parts |-> PartsValues])

\* the comparison turned into <
PartsMismatchShortOnly(parts, uploadData) ==
  ~Has(uploadData, "partCount") \/ Len(parts) < uploadData.partCount

\* parts.length !== uploadData.partCount (true of an undefined partCount)
PartsMismatch(parts, uploadData) ==
  ~Has(uploadData, "partCount") \/ Len(parts) # uploadData.partCount

\* the type test left out
IsNotMultipartNever(uploadData) == FALSE

\* uploadData.type !== "multipart"
IsNotMultipart(uploadData) == ~IsMultipart(uploadData)

MultipartComplete(in) ==
  /\ Accepts
  /\ IF ~Has(in, "uploadId") \/ ~Has(in, "parts") \/ ~in.parts.isArray
       THEN Respond(Reject(400, "uploadId and parts array are required"))
     ELSE IF in.uploadId \notin uploads
       THEN Respond(Reject(404, "Upload not found"))
     ELSE IF IsNotMultipart(objects[in.uploadId])
       THEN Respond(Reject(400, "Upload is not a multipart upload"))
     ELSE IF PartsMismatch(in.parts.items, objects[in.uploadId])
       THEN Respond(Reject(400, "Expected parts"))
     ELSE Await("multipart/complete",
                [uploadId |-> in.uploadId, parts |-> in.parts.items],
                CompleteMultipart(objects[in.uploadId].s3Key,
                                  Field(objects[in.uploadId], "s3UploadId"),
                                  in.parts.items))
  /\ UNCHANGED uploads
  /\ Objects(objects)
  /\ UNCHANGED <<nextUploadId, now, s3Open, NODE_ENV, planIn, planOut>>

MultipartCompleteReturns(r) ==
  /\ Awaiting(r, "multipart/complete", "completeMultipart")
  /\ LET uploadId == r.local.uploadId
         result == [Location |-> Location(r.call.Key)]
         uploadData ==
           Put(Put(MarkCompleted(objects[uploadId], now),
             "completedParts", r.local.parts),
             "s3Location", result.Location)
     IN \/ /\ uploads' = uploads \cup {uploadId}
           /\ s3Open' = s3Open \ {r.call.UploadId}
           /\ AwaitNext(r, [uploadId |-> uploadId, result |-> result],
                        SignDownload(uploadData.s3Key, DOWNLOAD_EXPIRES_IN))
           /\ Objects(Put(objects, uploadId, uploadData))
        \/ /\ Throw(r, "Failed to complete multipart upload")
           /\ UNCHANGED <<uploads, s3Open>>
           /\ Objects(objects)
  /\ UNCHANGED <<nextUploadId, now, NODE_ENV, planIn, planOut>>

MultipartCompleteSigned(r) ==
  /\ Awaiting(r, "multipart/complete", "signDownload")
  /\ LET uploadData == objects[r.local.uploadId]
     IN \/ Finish(r, Ok([uploadId |-> r.local.uploadId,
                         status |-> "completed",
                         fileName |-> uploadData.fileName,
                         s3Key |-> uploadData.s3Key,
                         s3Location |-> r.local.result.Location,
                         downloadUrl |-> SignedUrl(r.call),
                         completedAt |-> uploadData.completedAt]))
        \/ Throw(r, "Failed to generate presigned download URL")
  /\ UNCHANGED uploads
  /\ Objects(objects)
  /\ UNCHANGED <<nextUploadId, now, s3Open, NODE_ENV, planIn, planOut>>

----------------------------------------------------------------------------
(* POST /multipart/abort *)

MultipartAbort(in) ==
  /\ Accepts
  /\ IF ~Has(in, "uploadId")
       THEN Respond(Reject(400, "uploadId is required"))
     ELSE IF in.uploadId \notin uploads
       THEN Respond(Reject(404, "Upload not found"))
     ELSE IF IsNotMultipart(objects[in.uploadId])
       THEN Respond(Reject(400, "Upload is not a multipart upload"))
     ELSE Await("multipart/abort", [uploadId |-> in.uploadId],
                AbortMultipart(objects[in.uploadId].s3Key,
                               Field(objects[in.uploadId], "s3UploadId")))
  /\ UNCHANGED uploads
  /\ Objects(objects)
  /\ UNCHANGED <<nextUploadId, now, s3Open, NODE_ENV, planIn, planOut>>

MultipartAbortReturns(r) ==
  /\ Awaiting(r, "multipart/abort", "abortMultipart")
  /\ LET uploadId == r.local.uploadId
         uploadData == Put(Put(objects[uploadId], "status", "aborted"),
                           "abortedAt", now)
     IN \/ /\ uploads' = uploads \cup {uploadId}
           /\ s3Open' = s3Open \ {r.call.UploadId}
           /\ Finish(r, Ok([uploadId |-> uploadId,
                            status |-> "aborted",
                            message |-> "Multipart upload aborted successfully",
                            abortedAt |-> uploadData.abortedAt]))
           /\ Objects(Put(objects, uploadId, uploadData))
        \/ /\ Throw(r, "Failed to abort multipart upload")
           /\ UNCHANGED <<uploads, s3Open>>
           /\ Objects(objects)
  /\ UNCHANGED <<nextUploadId, now, NODE_ENV, planIn, planOut>>

----------------------------------------------------------------------------
(* The server *)

Next ==
  \/ Tick
  \/ Health
  \/ \E body \in Bodies : PresignedUrl(body)
  \/ \E r \in InFlight : PresignedUrlReturns(r)
  \/ \E in \in IdInputs : Confirm(in)
  \/ \E r \in InFlight : ConfirmReturns(r)
  \/ \E uploadId \in UploadIds : GetUpload(uploadId)
  \/ \E uploadId \in UploadIds : DeleteUpload(uploadId)
  \/ \E r \in InFlight : DeleteUploadReturns(r)
  \/ \E query \in Queries : ListUploads(query)
  \/ \E in \in KeyInputs : DownloadUrl(in)
  \/ \E r \in InFlight : DownloadUrlReturns(r)
  \/ \E body \in Bodies : MultipartInitiate(body)
  \/ \E r \in InFlight : MultipartInitiateReturns(r)
  \/ \E r \in InFlight : SignPartReturns(r)
  \/ \E in \in CompleteInputs : MultipartComplete(in)
  \/ \E r \in InFlight : MultipartCompleteReturns(r)
  \/ \E r \in InFlight : MultipartCompleteSigned(r)
  \/ \E in \in IdInputs : MultipartAbort(in)
  \/ \E r \in InFlight : MultipartAbortReturns(r)

Spec == Init /\ [][Next]_vars

----------------------------------------------------------------------------
(* The calculator on its own: plan(fileSize) for each size of CalcSizes *)

InitCalc ==
  /\ uploads = {}
  /\ objects = Empty
  /\ nextUploadId = 1
  /\ reqs = EmptyBag
  /\ last = Empty
  /\ now = 0
  /\ s3Open = {}
  /\ NODE_ENV = "production"
  /\ planIn \in CalcSizes
  /\ planOut = Empty

Plan ==
  /\ planOut = Empty
  /\ planOut' = calculateMultipartParams(planIn)
  /\ UNCHANGED <<uploads, objects, nextUploadId, reqs, last, now, s3Open, NODE_ENV, planIn>>

NextCalc == Plan

SpecCalc == InitCalc /\ [][NextCalc]_vars

----------------------------------------------------------------------------
(* Properties *)

Terminal == {"completed", "aborted"}

\* an error envelope with this status
IsReject(res, status) ==
  Has(res, "success") /\ ~res.success /\ res.status = status

IsOk(res) == Has(res, "success") /\ res.success

\* the response of a successful POST /confirm
IsConfirmOk(res) ==
  /\ IsOk(res)
  /\ Has(res.data, "downloadUrl")
  /\ Has(res.data, "completedAt")
  /\ ~Has(res.data, "s3Location")

\* the response of a successful GET /:uploadId
IsRecord(res) == IsOk(res) /\ Has(res.data, "createdAt")

PartNumbersOf(parts) == {parts[i].PartNumber : i \in 1 .. Len(parts)}

Ascending(parts) ==
  \A i \in 1 .. Len(parts) - 1 : parts[i].PartNumber < parts[i + 1].PartNumber

\* C1: a session whose status is 'completed' or 'aborted' keeps that status
\* for as long as it is in the registry, whatever request is served.
C1_TerminalStatusIsFinal ==
  [][\A k \in uploads :
       (objects[k].status \in Terminal /\ k \in uploads')
         => objects'[k].status = objects[k].status]_vars

\* C2: every multipart session with status 'completed' has completedParts
\* with exactly partCount entries, numbered exactly 1..partCount.
C2_CompletedPartsCoverRange ==
  \A k \in uploads :
    (IsMultipart(objects[k]) /\ objects[k].status = "completed")
      => /\ Len(objects[k].completedParts) = objects[k].partCount
         /\ PartNumbersOf(objects[k].completedParts) = 1 .. objects[k].partCount

\* C3: a complete-multipart request on a 'multipart-initiated' session whose
\* parts array has another length than partCount is answered 400, reaches no
\* await (no provider call) and leaves the registry as it was.
C3_WrongLengthRejected ==
  [][\A in \in CompleteInputs :
       (/\ Has(in, "uploadId") /\ Has(in, "parts") /\ in.parts.isArray
        /\ in.uploadId \in uploads
        /\ objects[in.uploadId].status = "multipart-initiated"
        /\ Len(in.parts.items) # objects[in.uploadId].partCount
        /\ MultipartComplete(in))
         => /\ IsReject(last', 400)
            /\ reqs' = reqs
            /\ UNCHANGED <<uploads, objects, s3Open>>
            /\ objects'[in.uploadId].status = "multipart-initiated"]_vars

C3_Witness ==
  /\ last = Reject(400, "Expected parts")
  /\ \E k \in uploads : objects[k].status = "multipart-initiated"

\* C4: on a session made by initiate-simple, in any status, complete-multipart
\* and abort-multipart are answered with a 400, reach no await (no provider
\* call) and leave the registry as it was.
C4_SimpleSessionRejectsMultipartOps ==
  [][/\ \A in \in CompleteInputs :
          (/\ Has(in, "uploadId") /\ in.uploadId \in uploads
           /\ ~IsMultipart(objects[in.uploadId])
           /\ MultipartComplete(in))
            => /\ IsReject(last', 400)
               /\ reqs' = reqs
               /\ UNCHANGED <<uploads, objects, s3Open>>
     /\ \A in \in IdInputs :
          (/\ Has(in, "uploadId") /\ in.uploadId \in uploads
           /\ ~IsMultipart(objects[in.uploadId])
           /\ MultipartAbort(in))
            => /\ IsReject(last', 400)
               /\ reqs' = reqs
               /\ UNCHANGED <<uploads, objects, s3Open>>]_vars

C4_Witness ==
  /\ last = Reject(400, "Upload is not a multipart upload")
  /\ \E k \in uploads : ~IsMultipart(objects[k]) /\ objects[k].status = "completed"

\* C5: a delete request on a 'completed' session asks the provider once to
\* delete the object under the session's s3Key, and removes the record only
\* when that call has returned successfully; a delete request on a 'pending'
\* session removes the record at once, with no provider call.
C5_DeleteCallsProviderFirst ==
  [][/\ \A k \in UploadIds :
          (k \in uploads /\ DeleteUpload(k))
            => IF objects[k].status = "completed"
                 THEN /\ uploads' = uploads
                      /\ reqs' = reqs (+) SetToBag({[kind |-> "delete",
                                                    local |-> [uploadId |-> k],
                                                    call |-> DeleteObject(objects[k].s3Key),
                                                    calls |-> 1]})
                 ELSE objects[k].status = "pending"
                        => /\ k \notin uploads'
                           /\ reqs' = reqs
                           /\ IsOk(last')
     /\ \A r \in InFlight :
          DeleteUploadReturns(r)
            => /\ r.calls = 1
               /\ IsOk(last') => r.local.uploadId \notin uploads'
               /\ ~IsOk(last') => uploads' = uploads
     /\ \A k \in uploads :
          (objects[k].status = "completed" /\ k \notin uploads')
            => \E r \in InFlight :
                 /\ r.call = DeleteObject(objects[k].s3Key)
                 /\ DeleteUploadReturns(r)
                 /\ IsOk(last')]_vars

C5_Witness ==
  \E r \in InFlight :
    /\ r.kind = "delete"
    /\ r.local.uploadId \in uploads
    /\ objects[r.local.uploadId].status = "completed"
    /\ r.call = DeleteObject(objects[r.local.uploadId].s3Key)

\* C6 as claimed: a get-by-id that follows a successful confirm of a session
\* made by initiate-simple yields a record with status 'completed' that
\* carries a non-empty download URL.
C6_GetCarriesDownloadUrl ==
  [][\A k \in UploadIds :
       (/\ IsConfirmOk(last) /\ last.data.uploadId = k
        /\ k \in uploads /\ ~IsMultipart(objects[k])
        /\ GetUpload(k))
         => /\ IsRecord(last')
            /\ last'.data.status = "completed"
            /\ Has(last'.data, "downloadUrl")
            /\ last'.data.downloadUrl # Empty]_vars

\* C6 amended: the response of a successful confirm has status 'completed'
\* and a non-empty download URL; a get-by-id that follows it, for a session
\* made by initiate-simple that is still in the registry, yields the record
\* with status 'completed', and the record has no download URL.
C6_ConfirmCarriesDownloadUrl ==
  [][/\ \A r \in InFlight :
          (ConfirmReturns(r) /\ IsOk(last'))
            => /\ last'.data.status = "completed"
               /\ last'.data.downloadUrl # Empty
     /\ \A k \in UploadIds :
          (/\ IsConfirmOk(last) /\ last.data.uploadId = k
           /\ k \in uploads /\ ~IsMultipart(objects[k])
           /\ GetUpload(k))
            => /\ IsRecord(last')
               /\ last'.data.uploadId = k
               /\ last'.data.status = "completed"
               /\ ~Has(last'.data, "downloadUrl")]_vars

C6_Witness ==
  /\ IsRecord(last)
  /\ ~IsMultipart(last.data)
  /\ last.data.status = "completed"
  /\ last.data.uploadId \in uploads

\* C7: the part list of every completeMultipart call to the provider is in
\* strictly ascending part-number order.
C7_PartsSentAscending ==
  \A r \in InFlight :
    r.call.op = "completeMultipart" => Ascending(r.call.Parts)

\* C8 as claimed: for every fileSize the plan covers the file, has at most
\* MAX_PARTS parts, and a part size within [MIN_PART_SIZE, MAX_PART_SIZE].
C8_PlanWithinLimits ==
  planOut # Empty
    => /\ planOut.partCount * planOut.partSize >= planIn
       /\ planOut.partCount <= MAX_PARTS
       /\ MIN_PART_SIZE <= planOut.partSize
       /\ planOut.partSize <= MAX_PART_SIZE

\* C8 amended: for every fileSize the plan covers the file and has a part
\* size within [MIN_PART_SIZE, MAX_PART_SIZE]; it has at most MAX_PARTS parts
\* exactly when fileSize <= MAX_PARTS * MAX_PART_SIZE.
C8_PlanWithinLimitsUpToMax ==
  planOut # Empty
    => /\ planOut.partCount * planOut.partSize >= planIn
       /\ MIN_PART_SIZE <= planOut.partSize
       /\ planOut.partSize <= MAX_PART_SIZE
       /\ planOut.partCount <= MAX_PARTS <=> planIn <= MAX_PARTS * MAX_PART_SIZE

C8_Witness ==
  /\ planOut # Empty
  /\ planIn = MAX_PARTS * MAX_PART_SIZE
  /\ planOut.partCount = MAX_PARTS
  /\ planOut.partSize = MAX_PART_SIZE

\* C9: for every fileSize <= MIN_PART_SIZE, 0 included, useMultipart is false.
C9_SmallFilesAreNotMultipart ==
  (planOut # Empty /\ planIn <= MIN_PART_SIZE) => ~planOut.useMultipart

C9_Witness ==
  planOut # Empty /\ planIn = MIN_PART_SIZE /\ ~planOut.useMultipart

\* C10: for PREFERRED_PART_SIZE < fileSize <= MAX_PARTS * PREFERRED_PART_SIZE
\* the plan is partSize = PREFERRED_PART_SIZE, partCount = the least count of
\* such parts that covers the file, useMultipart = true; 120 MiB gives 3 parts.
C10_PreferredSizeUnclamped ==
  (/\ planOut # Empty
   /\ PREFERRED_PART_SIZE < planIn
   /\ planIn <= MAX_PARTS * PREFERRED_PART_SIZE)
    => /\ planOut.partSize = PREFERRED_PART_SIZE
       /\ planOut.partCount * PREFERRED_PART_SIZE >= planIn
       /\ (planOut.partCount - 1) * PREFERRED_PART_SIZE < planIn
       /\ planOut.useMultipart
       /\ planIn = 120 => planOut.partCount = 3

C10_Witness ==
  planOut # Empty /\ planIn = 120 /\ planOut.partCount = 3 /\ planOut.partSize = 50

----------------------------------------------------------------------------
(* Properties of initiation, removal, errors and record fields *)

\* C11: an initiate-multipart request without fileSize, or with a fileSize
\* for which calculateMultipartParams says useMultipart = false, is answered
\* 400, reaches no await (no provider call) and registers nothing; and no
\* record with status 'multipart-initiated' has partCount < 2.
C11_MultipartNeedsQualifyingSize ==
  [][/\ \A body \in Bodies :
          (/\ \/ ~Has(body, "fileSize")
              \/ ~calculateMultipartParams(body.fileSize).useMultipart
           /\ MultipartInitiate(body))
            => /\ IsReject(last', 400)
               /\ reqs' = reqs
               /\ UNCHANGED <<uploads, objects, s3Open>>
     /\ \A k \in uploads' :
          objects'[k].status = "multipart-initiated" => objects'[k].partCount >= 2]_vars

C11_Witness ==
  /\ last = Reject(400, "File size does not require multipart upload")
  /\ uploads = {}
  /\ s3Open = {}
  /\ reqs = EmptyBag

\* C12: a record of type 'multipart' takes status 'completed' only in the
\* step in which the provider's completeMultipart call for its s3UploadId
\* returns successfully.
C12_MultipartCompletedOnlyByComplete ==
  [][\A k \in uploads :
       (/\ k \in uploads'
        /\ IsMultipart(objects[k])
        /\ objects[k].status # "completed"
        /\ objects'[k].status = "completed")
         => \E r \in InFlight :
              /\ r.call.op = "completeMultipart"
              /\ r.call.UploadId = objects[k].s3UploadId
              /\ MultipartCompleteReturns(r)]_vars

\* C13: no step removes a record whose status is 'multipart-initiated' or
\* 'aborted'.
C13_DeleteOnlyPendingOrCompleted ==
  [][\A k \in uploads :
       objects[k].status \in {"multipart-initiated", "aborted"}
         => k \in uploads']_vars

\* C14: an initiate-simple request whose fileSize qualifies for multipart is
\* answered with a rejection at once, so it never reaches the await after
\* which the handler registers a 'pending' session.
C14_SimpleRefusesMultipartSizes ==
  [][\A body \in Bodies :
       (/\ Has(body, "fileSize")
        /\ calculateMultipartParams(body.fileSize).useMultipart
        /\ PresignedUrl(body))
         => /\ Has(last', "success") /\ ~last'.success
            /\ reqs' = reqs]_vars

ProviderFailures ==
  {"Failed to generate presigned upload URL",
   "Failed to generate presigned download URL",
   "Failed to delete file",
   "Failed to initiate multipart upload",
   "Failed to generate presigned URL for part",
   "Failed to complete multipart upload",
   "Failed to abort multipart upload"}

\* C17: when a provider call fails, the response of the request is an error
\* envelope with success = false and status 502.
C17_ProviderFailureIs502 ==
  [][\A r \in InFlight : \A message \in ProviderFailures :
       Throw(r, message) => IsReject(last', 502)]_vars

\* C18: createdAt and expiresAt of a record never change, and completedAt
\* and abortedAt, once set, keep their value.
C18_TimestampsSetOnce ==
  [][\A k \in (DOMAIN objects) \cap (DOMAIN objects') :
       /\ objects'[k].createdAt = objects[k].createdAt
       /\ objects'[k].expiresAt = objects[k].expiresAt
       /\ \A f \in {"completedAt", "abortedAt"} :
            Has(objects[k], f)
              => Has(objects'[k], f) /\ objects'[k][f] = objects[k][f]]_vars

CreationFields ==
  {"uploadId", "s3Key", "userId", "fileName", "contentType", "type",
   "s3UploadId", "partSize", "partCount"}

\* C19: for as long as a record exists, its fields uploadId, s3Key, userId,
\* fileName, contentType, type, s3UploadId, partSize and partCount are the
\* ones it was created with: no step adds, removes or changes one of them.
C19_CreationFieldsImmutable ==
  [][\A k \in (DOMAIN objects) \cap (DOMAIN objects') : \A f \in CreationFields :
       /\ Has(objects'[k], f) <=> Has(objects[k], f)
       /\ Has(objects[k], f) => objects'[k][f] = objects[k][f]]_vars

C19_Witness ==
  \E k \in uploads :
    /\ IsMultipart(objects[k])
    /\ objects[k].status = "aborted"
    /\ Has(objects[k], "completedAt")
    /\ objects[k].partCount = 2

\* C20: get-by-id, list, health and get-download-url (both of its steps)
\* leave the registry as it was, for known and unknown uploadIds.
C20_ReadsLeaveRegistry ==
  [][(\/ \E uploadId \in UploadIds : GetUpload(uploadId)
      \/ \E query \in Queries : ListUploads(query)
      \/ Health
      \/ \E in \in KeyInputs : DownloadUrl(in)
      \/ \E r \in InFlight : DownloadUrlReturns(r))
       => UNCHANGED <<uploads, objects>>]_vars

C20_Witness ==
  /\ IsOk(last)
  /\ Has(last.data, "total")
  /\ last.data.total = 1
  /\ \E k \in uploads : objects[k] \in last.data.uploads

----------------------------------------------------------------------------
(* The two initiations alone, one request at a time, over WideBodies *)

InitiateSimple == \E body \in WideBodies : reqs = EmptyBag /\ PresignedUrl(body)

InitiateMultipart == \E body \in WideBodies : reqs = EmptyBag /\ MultipartInitiate(body)

NextInitiate ==
  \/ InitiateSimple
  \/ InitiateMultipart
  \/ \E r \in InFlight : PresignedUrlReturns(r)
  \/ \E r \in InFlight : MultipartInitiateReturns(r)
  \/ \E r \in InFlight : SignPartReturns(r)

SpecInitiate == Init /\ [][NextInitiate]_vars

\* the request has no (or an empty) fileName, no contentType, or a
\* contentType that is not literally in the allow-list
Lacking(body) ==
  \/ ~Has(body, "fileName")
  \/ body.fileName = ""
  \/ ~Has(body, "contentType")
  \/ body.contentType \notin ALLOWED_FILE_TYPES

\* a non-video contentType with a fileSize above the configured maximum
Oversized(body) ==
  /\ Has(body, "fileSize")
  /\ body.fileSize > DEFAULT_MAX_FILE_SIZE
  /\ Has(body, "contentType")
  /\ body.contentType \notin {"video/mp4", "video/x-flv"}

Initiation(body) == PresignedUrl(body) \/ MultipartInitiate(body)

NothingStarted ==
  /\ reqs' = reqs
  /\ UNCHANGED <<uploads, objects, s3Open>>

RecordsAreValid ==
  \A k \in uploads :
    /\ objects[k].fileName # ""
    /\ objects[k].contentType \in ALLOWED_FILE_TYPES

\* C15 as claimed: an initiation that lacks fileName or contentType, or whose
\* contentType is not in the allow-list, is answered 400 with no session
\* registered and no provider call; every record has a non-empty fileName and
\* an allow-listed contentType.
C15_InvalidInitiationIs400 ==
  [][/\ \A body \in WideBodies :
          (Lacking(body) /\ Initiation(body))
            => IsReject(last', 400) /\ NothingStarted
     /\ RecordsAreValid']_vars

\* C15 amended: such an initiation is answered 400, or 413 when fileName and
\* contentType are present, the contentType does not start with "video/" and
\* the fileSize exceeds the maximum (the size check comes before the
\* allow-list check); in both cases no session is registered and no provider
\* call is made; every record has a non-empty fileName and an allow-listed
\* contentType.
C15_InvalidInitiationIs400Or413 ==
  [][/\ \A body \in WideBodies :
          (Lacking(body) /\ Initiation(body))
            => /\ NothingStarted
               /\ IF TruthyStr(body, "fileName") /\ Oversized(body)
                    THEN IsReject(last', 413)
                    ELSE IsReject(last', 400)
     /\ RecordsAreValid']_vars

C15_Witness ==
  /\ last = RejectWith(400, "Invalid file type", "Allowed types")
  /\ \E k \in uploads : objects[k].contentType = "image/png"

\* C16: an initiation with fileName and contentType whose contentType does
\* not start with "video/" and whose fileSize exceeds the maximum is answered
\* 413 and registers nothing; one whose contentType starts with "video/" is
\* never answered 413, and with an allow-listed video type and a fileSize
\* above the maximum it goes on to its provider call.
C16_SizeCeilingExemptsVideo ==
  [][\A body \in WideBodies :
       (/\ TruthyStr(body, "fileName") /\ Has(body, "contentType")
        /\ Initiation(body))
         => /\ Oversized(body) => IsReject(last', 413) /\ NothingStarted
            /\ body.contentType \in {"video/mp4", "video/x-flv"}
                 => /\ ~IsReject(last', 413)
                    /\ (/\ body.contentType \in ALLOWED_FILE_TYPES
                        /\ Has(body, "fileSize")
                        /\ body.fileSize > DEFAULT_MAX_FILE_SIZE)
                         => /\ last' = Empty
                            /\ BagCardinality(reqs') = BagCardinality(reqs) + 1]_vars

C16_Witness ==
  /\ IsReject(last, 413)
  /\ \E k \in uploads :
       /\ IsMultipart(objects[k])
       /\ objects[k].fileSize > DEFAULT_MAX_FILE_SIZE
       /\ StartsWithVideo(objects[k].contentType)

----------------------------------------------------------------------------
(* Properties of error responses, provider handles and concurrent requests *)

\* C22: outside development mode no error response carries a stack field or
\* a details field.
C22_NoDetailOutsideDevelopment ==
  (NODE_ENV # "development" /\ Has(last, "success") /\ ~last.success)
    => ~Has(last, "stack") /\ ~Has(last, "details")

\* the requests for which the provider has opened this multipart upload and
\* whose handler has not stored the record yet
Initiating(handle) ==
  \E r \in InFlight :
    /\ r.kind = "multipart/initiate"
    /\ Has(r.local, "s3UploadId")
    /\ r.local.s3UploadId = handle

\* C24: every multipart upload that is open at the provider is tracked by a
\* record with status 'multipart-initiated' (or belongs to an initiation that
\* is still signing its parts).
C24_OpenHandlesAreTracked ==
  \A handle \in s3Open :
    \/ Initiating(handle)
    \/ \E k \in uploads :
         /\ objects[k].status = "multipart-initiated"
         /\ objects[k].s3UploadId = handle

Mutators == {"confirm", "multipart/complete", "multipart/abort", "delete"}

\* C25: a confirm, complete-multipart, abort-multipart or delete request that
\* can still end in a provider error has not changed the record it names:
\* neither the step that leaves it waiting for a provider call nor the step
\* in which the call fails changes the record or removes it.
C25_FailedRequestLeavesRecord ==
  [][\A k \in uploads :
       (\/ \E r \in BagToSet(reqs') :
             /\ r.kind \in Mutators
             /\ r.local.uploadId = k
             /\ CopiesIn(r, reqs') > CopiesIn(r, reqs)
        \/ \E r \in InFlight : \E message \in ProviderFailures :
             /\ r.kind \in Mutators
             /\ r.local.uploadId = k
             /\ Throw(r, message))
         => k \in uploads' /\ objects'[k] = objects[k]]_vars

\* C26: no two requests are waiting at the same time for deleteObject on the
\* same key, nor for completeMultipart on the same provider upload.
C26_NoOverlappingProviderCalls ==
  \A r \in InFlight :
    r.call.op \in {"deleteObject", "completeMultipart"}
      => /\ CopiesIn(r, reqs) = 1
         /\ \A q \in InFlight :
              (q.call.op = r.call.op /\ q.call.Key = r.call.Key) => q = r

\* C27: a record has completedAt exactly when its status is 'completed' and
\* abortedAt exactly when its status is 'aborted', never both; an 'aborted'
\* record has no s3Location and an empty completedParts.
C27_TimestampsMatchStatus ==
  \A k \in uploads :
    LET u == objects[k]
    IN /\ Has(u, "completedAt") <=> u.status = "completed"
       /\ Has(u, "abortedAt") <=> u.status = "aborted"
       /\ ~(Has(u, "completedAt") /\ Has(u, "abortedAt"))
       /\ u.status = "aborted"
            => /\ ~Has(u, "s3Location")
               /\ Has(u, "completedParts") => u.completedParts = <<>>

\* C28: for every fileSize, useMultipart is true exactly when
\* fileSize > PREFERRED_PART_SIZE.
C28_MultipartIffAbovePreferred ==
  planOut # Empty => (planOut.useMultipart <=> planIn > PREFERRED_PART_SIZE)

C28_Witness ==
  /\ planOut # Empty
  /\ planIn = PREFERRED_PART_SIZE
  /\ planIn > MIN_PART_SIZE
  /\ ~planOut.useMultipart
  /\ planOut.partCount = 1

----------------------------------------------------------------------------
(* Properties of the part-signing loop *)

Numbered(urls) == \A i \in 1 .. Len(urls) : urls[i].partNumber = i

\* every initiation that is waiting for signPart has had its provider upload
\* opened, has signed parts 1 .. PartNumber - 1 once each, in order, and is
\* now asking for the next one, which is at most partCount
SigningInOrder ==
  \A r \in InFlight :
    r.call.op = "signPart"
      => /\ Has(r.local, "s3UploadId")
         /\ r.local.s3UploadId \in s3Open
         /\ r.call.UploadId = r.local.s3UploadId
         /\ r.call.PartNumber = Len(r.local.urls) + 1
         /\ r.call.PartNumber \in 1 .. r.local.multipartParams.partCount
         /\ r.calls = r.call.PartNumber + 1
         /\ Numbered(r.local.urls)

\* C23: a successful initiate-multipart has called signPart once for each
\* part number 1..partCount, in order, after beginMultipart returned, and
\* answers with partCount part URLs whose i-th entry has partNumber i; when a
\* signPart call fails the request is answered with an error and no session
\* is registered.
C23_OnePartUrlPerPart ==
  [][/\ SigningInOrder'
     /\ \A r \in InFlight :
          SignPartReturns(r)
            => /\ IsOk(last')
                    => /\ r.call.PartNumber = r.local.multipartParams.partCount
                       /\ r.calls = r.local.multipartParams.partCount + 1
                       /\ Len(last'.data.partUrls) = last'.data.partCount
                       /\ last'.data.partCount = r.local.multipartParams.partCount
                       /\ Numbered(last'.data.partUrls)
                       /\ r.local.uploadId \in uploads'
               /\ (\E message \in ProviderFailures : Throw(r, message))
                    => /\ ~IsOk(last')
                       /\ UNCHANGED <<uploads, objects>>
                       /\ r.local.uploadId \notin uploads']_vars

C23_Witness ==
  /\ IsOk(last)
  /\ Has(last.data, "partUrls")
  /\ Len(last.data.partUrls) = 2
  /\ last.data.uploadId \in uploads
  /\ objects[last.data.uploadId].partCount = 2

----------------------------------------------------------------------------
(* Requests on two sessions: the registry already holds session 0, made by an
   earlier initiation, when the requests of this specification arrive *)

SeedId == 0

PairIds == {SeedId} \cup UploadIds

MultipartBody == Put(ValidBody, "fileSize", 60)

\* the record POST /presigned-url stored for ValidBody
SeedSimple ==
  [uploadId |-> SeedId,
   fileName |-> ValidBody.fileName,
   contentType |-> ValidBody.contentType,
   s3Key |-> generateFileKey(ValidBody.fileName, ValidBody, SeedId),
   userId |-> ValidBody.userId,
   status |-> "pending",
   createdAt |-> 0,
   expiresAt |-> DEFAULT_EXPIRES_IN * 1000]

\* the record POST /multipart/initiate stored for MultipartBody
SeedMultipart ==
  [uploadId |-> SeedId,
   s3UploadId |-> ProviderUploadId(SeedId),
   fileName |-> MultipartBody.fileName,
   contentType |-> MultipartBody.contentType,
   fileSize |-> MultipartBody.fileSize,
   s3Key |-> generateFileKey(MultipartBody.fileName, MultipartBody, SeedId),
   userId |-> MultipartBody.userId,
   status |-> "multipart-initiated",
   type |-> "multipart",
   partSize |-> calculateMultipartParams(MultipartBody.fileSize).partSize,
   partCount |-> calculateMultipartParams(MultipartBody.fileSize).partCount,
   completedParts |-> <<>>,
   createdAt |-> 0,
   expiresAt |-> DEFAULT_EXPIRES_IN * 1000]

InitPair ==
  /\ uploads = {SeedId}
  /\ \/ objects = (SeedId :> SeedSimple) /\ s3Open = {}
     \/ objects = (SeedId :> SeedMultipart) /\ s3Open = {ProviderUploadId(SeedId)}
  /\ nextUploadId = 1
  /\ reqs = EmptyBag
  /\ last = Empty
  /\ now = 0
  /\ NODE_ENV = "production"
  /\ planIn = 0
  /\ planOut = Empty

PairIdInputs == {[uploadId |-> k] : k \in PairIds}

PairCompleteInputs ==
  {[uploadId |-> k, parts |-> [isArray |-> TRUE, items |-> <<Part(1), Part(2)>>]] :
     k \in PairIds}

NextPair ==
  \/ PresignedUrl(ValidBody)
  \/ \E r \in InFlight : PresignedUrlReturns(r)
  \/ MultipartInitiate(MultipartBody)
  \/ \E r \in InFlight : MultipartInitiateReturns(r)
  \/ \E r \in InFlight : SignPartReturns(r)
  \/ \E in \in PairIdInputs : Confirm(in)
  \/ \E r \in InFlight : ConfirmReturns(r)
  \/ \E uploadId \in PairIds : DeleteUpload(uploadId)
  \/ \E r \in InFlight : DeleteUploadReturns(r)
  \/ \E in \in PairCompleteInputs : MultipartComplete(in)
  \/ \E r \in InFlight : MultipartCompleteReturns(r)
  \/ \E r \in InFlight : MultipartCompleteSigned(r)
  \/ \E in \in PairIdInputs : MultipartAbort(in)
  \/ \E r \in InFlight : MultipartAbortReturns(r)

SpecPair == InitPair /\ [][NextPair]_vars


\* the step leaves session k as it was: neither added, removed nor modified
Untouched(k) ==
  /\ k \in uploads <=> k \in uploads'
  /\ k \in uploads => objects'[k] = objects[k]

OnlyRecord(x) == \A k \in PairIds \ {x} : Untouched(k)

\* the step adds at most the record x and leaves every existing record
AddsOnly(x) ==
  /\ \A k \in uploads : Untouched(k)
  /\ uploads' \ uploads \subseteq {x}

\* C21: with requests interleaved, every step of a confirm, complete,
\* abort or delete request that names uploadId x leaves every record other
\* than x's as it was, and every step of an initiation leaves every existing
\* record as it was, adding at most its own.
C21_RequestsTouchOneRecord ==
  [][/\ \A in \in PairIdInputs :
          (Confirm(in) \/ MultipartAbort(in)) => OnlyRecord(in.uploadId)
     /\ \A in \in PairCompleteInputs :
          MultipartComplete(in) => OnlyRecord(in.uploadId)
     /\ \A x \in PairIds : DeleteUpload(x) => OnlyRecord(x)
     /\ \A r \in InFlight :
          /\ (\/ ConfirmReturns(r)
              \/ DeleteUploadReturns(r)
              \/ MultipartCompleteReturns(r)
              \/ MultipartCompleteSigned(r)
              \/ MultipartAbortReturns(r))
               => OnlyRecord(r.local.uploadId)
          /\ (\/ PresignedUrlReturns(r)
              \/ MultipartInitiateReturns(r)
              \/ SignPartReturns(r))
               => AddsOnly(r.local.uploadId)
     /\ (PresignedUrl(ValidBody) \/ MultipartInitiate(MultipartBody))
          => AddsOnly(nextUploadId)]_vars

\* both sessions are in the registry, one changed by its requests and the
\* other as it was created, while a further request is being served
C21_Witness ==
  /\ uploads = PairIds
  /\ objects[SeedId].status = "aborted"
  /\ \E k \in UploadIds : objects[k].status = "pending"
  /\ \E r \in InFlight : r.kind = "delete" /\ r.local.uploadId = SeedId

----------------------------------------------------------------------------
(* Every request is answered: the handlers under fair scheduling, with at
   most one request of each route waiting for the provider at a time *)

Idle(kind) == \A r \in InFlight : r.kind # kind

InitiateSimpleArrives ==
  \E body \in Bodies : Idle("presigned-url") /\ PresignedUrl(body)

InitiateMultipartArrives ==
  \E body \in Bodies : Idle("multipart/initiate") /\ MultipartInitiate(body)

ConfirmArrives == \E in \in IdInputs : Idle("confirm") /\ Confirm(in)

CompleteArrives ==
  \E in \in CompleteInputs : Idle("multipart/complete") /\ MultipartComplete(in)

AbortArrives == \E in \in IdInputs : Idle("multipart/abort") /\ MultipartAbort(in)

DeleteArrives == \E uploadId \in UploadIds : Idle("delete") /\ DeleteUpload(uploadId)

GetArrives == \E uploadId \in UploadIds : GetUpload(uploadId)

ListArrives == \E query \in Queries : ListUploads(query)

\* the provider call of the waiting request returns or fails, and the
\* handler runs on from its await
InitiateSimpleResumes == \E r \in InFlight : PresignedUrlReturns(r)

InitiateMultipartResumes ==
  \E r \in InFlight : MultipartInitiateReturns(r) \/ SignPartReturns(r)

ConfirmResumes == \E r \in InFlight : ConfirmReturns(r)

CompleteResumes ==
  \E r \in InFlight : MultipartCompleteReturns(r) \/ MultipartCompleteSigned(r)

AbortResumes == \E r \in InFlight : MultipartAbortReturns(r)

DeleteResumes == \E r \in InFlight : DeleteUploadReturns(r)

NextLive ==
  \/ InitiateSimpleArrives
  \/ InitiateMultipartArrives
  \/ ConfirmArrives
  \/ CompleteArrives
  \/ AbortArrives
  \/ DeleteArrives
  \/ GetArrives
  \/ ListArrives
  \/ InitiateSimpleResumes
  \/ InitiateMultipartResumes
  \/ ConfirmResumes
  \/ CompleteResumes
  \/ AbortResumes
  \/ DeleteResumes

\* every provider call returns or fails, and the event loop runs every
\* handler whose await has settled
Fairness ==
  /\ WF_vars(InitiateSimpleResumes)
  /\ WF_vars(InitiateMultipartResumes)
  /\ WF_vars(ConfirmResumes)
  /\ WF_vars(CompleteResumes)
  /\ WF_vars(AbortResumes)
  /\ WF_vars(DeleteResumes)

SpecLive == Init /\ [][NextLive]_vars /\ Fairness

Kinds ==
  {"presigned-url", "multipart/initiate", "confirm", "multipart/complete",
   "multipart/abort", "delete"}

Envelope(res) == Has(res, "success") /\ Has(res, "status")

\* one step of a request: it starts waiting for the provider, goes on to a
\* further provider call, is answered at once, or is answered after waiting;
\* a request is answered in the step in which it stops waiting, with a
\* success or an error envelope
AnswersOnce ==
  \/ BagCardinality(reqs') = BagCardinality(reqs) + 1 /\ last' = Empty
  \/ BagCardinality(reqs') = BagCardinality(reqs) /\ reqs' # reqs /\ last' = Empty
  \/ reqs' = reqs /\ Envelope(last')
  \/ /\ BagCardinality(reqs') = BagCardinality(reqs) - 1
     /\ \E r \in InFlight : reqs' = reqs (-) SetToBag({r})
     /\ Envelope(last')

\* C29: under fair scheduling, with every provider call returning or
\* failing, a request of each route that is waiting is eventually answered
\* and waits no more; every request is answered in exactly one step, at once
\* or when it stops waiting, with a success or an error envelope.
C29_EveryRequestAnswered ==
  /\ [][AnswersOnce]_vars
  /\ \A kind \in Kinds : ~Idle(kind) ~> Idle(kind)

\* one request has been answered with an error after its provider call
\* failed, while a complete-multipart request is at its second provider call
C29_Witness ==
  /\ IsReject(last, 500)
  /\ \E r \in InFlight :
       r.kind = "multipart/complete" /\ r.call.op = "signDownload" /\ r.calls = 2

====
